---- MODULE Spec2Model ----
(***************************************************************************)
(* Model of ttyui's line editor (src/src/readline.rs): the Buffer, its key *)
(* handlers and the read_line loop; and of its selectors                   *)
(* (src/src/selector.rs): ask_yes_no, select_word_from_words and the       *)
(* DateSelector.  Each entry point has a specification of its own.         *)
(*                                                                         *)
(* A Rust String is modelled as what it is: a sequence of UTF-8 bytes.     *)
(* A char is the sequence of bytes that encodes it, `index` is the byte    *)
(* offset the code keeps, and String::insert / String::remove / slicing    *)
(* panic where Rust's do (an offset that is not a char boundary).          *)
(* The terminal is an unbounded line with a cursor column.                 *)
(***************************************************************************)
EXTENDS Integers, Sequences, FiniteSets, TLC

VARIABLES
    text,                   \* Buffer.text: the bytes of the String
    index,                  \* Buffer.index
    prefix,                 \* Buffer.prefix (bytes)
    double_line_response,   \* Buffer.double_line_response
    terminate_on_up_down,   \* Buffer.terminate_on_up_down
    col,                    \* the terminal's cursor column
    pc,                     \* where read_line is: start, loop, esc, done, err, panic
    ret,                    \* the key read_line returned (or "none")
    last,                   \* the last handler run and the buffer it started from
    calls,                  \* the terminal calls the last handler made, in order
    run,                    \* the current run of consecutive char or del handlers
    question_msg,           \* ask_yes_no: its parameter (bytes)
    msg,                    \* ask_yes_no: the prompt on the line (bytes)
    items,                  \* select_word_from_words: its parameter
    seq,                    \* select_word_from_words: the selection index
    table,                  \* select_word_from_words: the marker of each row
    date_name,              \* DateSelector.name (bytes)
    has_time,               \* DateSelector.has_time
    active_field,           \* DateSelector.active_field
    date,                   \* DateSelector.date
    hist,                   \* a selector's keys read (calls made) so far
    failed                  \* a terminal operation of the selector has failed

\* the Buffer and what is recorded of its handlers
bufvars == <<text, index, prefix, double_line_response, terminate_on_up_down,
             last, run>>

\* the selectors
selvars == <<question_msg, msg, items, seq, table, date_name, has_time,
             active_field, date, hist, failed>>

vars == <<text, index, prefix, double_line_response, terminate_on_up_down,
          col, pc, ret, last, calls, run,
          question_msg, msg, items, seq, table, date_name, has_time,
          active_field, date, hist, failed>>

----------------------------------------------------------------------------
(* Bounds of the model *)

\* longest seed text given to Buffer::from, in bytes
MaxSeed == 2
\* longest text the model lets the user type up to, in bytes
MaxLen == 3
\* longest run of consecutive char / del handlers that is tracked
MaxRun == 4

----------------------------------------------------------------------------
(* Characters and strings *)

\* chars as their UTF-8 encoding: 'd', ' ', tab, and the two-byte e-acute
ChD == <<100>>
ChF == <<102>>
ChB == <<98>>
ChSpace == <<32>>
ChTab == <<9>>
ChNewline == <<10>>
ChEacute == <<195, 169>>

\* the chars a seed text is made of, and the chars the user types
SeedChars == {ChD, ChSpace, ChTab, ChEacute}
TypedChars == {ChD, ChSpace, ChEacute}

RECURSIVE StringsUpTo(_)
\* every string of whole SeedChars of at most n bytes
StringsUpTo(n) ==
    IF n = 0 THEN {<<>>}
    ELSE LET shorter == StringsUpTo(n - 1)
         IN  shorter \cup {s \o c : s \in shorter, c \in SeedChars}

Seeds == {s \in StringsUpTo(MaxSeed) : Len(s) <= MaxSeed}

\* how a caller sets a Buffer up before read_line: <<prefix, double_line_response,
\* terminate_on_up_down>>.  The prefix is empty (new, from) or "> " (set_prefix);
\* every pair of values of two of the three settings occurs.
Configs ==
    {<< <<>>, FALSE, FALSE >>, << <<>>, TRUE, TRUE >>,
     << <<62, 32>>, TRUE, FALSE >>, << <<62, 32>>, FALSE, TRUE >>}

\* a UTF-8 continuation byte (10xxxxxx)
IsContinuation(b) == b >= 128 /\ b < 192

\* str::is_char_boundary
IsCharBoundary(s, i) ==
    \/ i = 0
    \/ i = Len(s)
    \/ i < Len(s) /\ ~IsContinuation(s[i + 1])

\* char::len_utf8 of the char whose first byte is b
Utf8Width(b) ==
    IF b < 128 THEN 1 ELSE IF b < 224 THEN 2 ELSE IF b < 240 THEN 3 ELSE 4

\* the number of chars in a string: what a write of it advances the cursor by
CharCount(s) == Cardinality({i \in 1..Len(s) : ~IsContinuation(s[i])})

\* s[a..b] with Rust's offsets (the caller has checked the boundaries)
Slice(s, a, b) == SubSeq(s, a + 1, b)

\* str::match_indices(b).map(|t| t.0): the offsets of byte b, ascending
MatchIndices(s, b) ==
    LET offsets == [i \in 1..Len(s) |-> i - 1]
    IN  SelectSeq(offsets, LAMBDA o : s[o + 1] = b)

\* Vec::reverse
Reverse(q) == [i \in 1..Len(q) |-> q[Len(q) + 1 - i]]

----------------------------------------------------------------------------
(* A handler's run.  A handler works on a record m: the buffer's text and  *)
(* index, the cursor column, the terminal calls made so far, and how the   *)
(* run stands: "ok", "err" (a terminal call returned Err and `?` returned  *)
(* it) or "panic".  m.fail is the number of the terminal call that fails   *)
(* in this run (0: none does).  Once a run is not "ok" nothing more of the *)
(* handler happens.                                                        *)

Start(f) ==
    [text |-> text, index |-> index, col |-> col, calls |-> <<>>,
     st |-> "ok", fail |-> f]

Panic(m) == IF m.st = "ok" THEN [m EXCEPT !.st = "panic"] ELSE m

\* one call of a Term method: `emits` says whether it writes to the terminal
\* at all (only then can it fail), newcol is the column it leaves the cursor in.
\* A negative n is a usize subtraction that overflowed: the build with overflow
\* checks panics there.
TermCall(m, name, n, emits, newcol) ==
    IF m.st # "ok" THEN m
    ELSE IF n < 0 THEN Panic(m)
    ELSE IF emits /\ Len(m.calls) + 1 = m.fail THEN [m EXCEPT !.st = "err"]
    ELSE [m EXCEPT !.col = newcol,
                   !.calls = Append(@, [op |-> name, n |-> n])]

\* Term::move_cursor_left(n): nothing for n = 0, stops at column 0
move_cursor_left(m, n) ==
    TermCall(m, "left", n, n > 0, IF n > m.col THEN 0 ELSE m.col - n)

\* Term::move_cursor_right(n): nothing for n = 0
move_cursor_right(m, n) == TermCall(m, "right", n, n > 0, m.col + n)

\* Term::clear_line: erases the line, cursor to column 0
clear_line(m) == TermCall(m, "clear_line", 0, TRUE, 0)

\* Term::clear_chars(n): n columns left, then erases to the end of the line
clear_chars(m, n) ==
    TermCall(m, "clear_chars", n, n > 0, IF n > m.col THEN 0 ELSE m.col - n)

\* write!(&self.term, "{}", s): the cursor advances by the chars written
write(m, s) == TermCall(m, "write", Len(s), Len(s) > 0, m.col + CharCount(s))

\* String::insert(idx, ch): panics unless idx is a char boundary
insert(m, idx, ch) ==
    IF m.st # "ok" THEN m
    ELSE IF ~IsCharBoundary(m.text, idx) THEN Panic(m)
    ELSE [m EXCEPT !.text = Slice(@, 0, idx) \o ch \o Slice(@, idx, Len(@))]

\* String::remove(idx): removes the whole char that starts at idx; panics when
\* idx is no char boundary or there is no char there
remove(m, idx) ==
    IF m.st # "ok" THEN m
    ELSE IF idx < 0 \/ idx >= Len(m.text) \/ ~IsCharBoundary(m.text, idx)
         THEN Panic(m)
    ELSE LET w == Utf8Width(m.text[idx + 1])
         IN  [m EXCEPT !.text = Slice(@, 0, idx) \o Slice(@, idx + w, Len(@))]

\* the checks of &s[a..b]: both ends char boundaries, a <= b <= len
SliceOk(s, a, b) ==
    a <= b /\ b <= Len(s) /\ IsCharBoundary(s, a) /\ IsCharBoundary(s, b)

SetText(m, s) == IF m.st = "ok" THEN [m EXCEPT !.text = s] ELSE m
SetIndex(m, i) == IF m.st = "ok" THEN [m EXCEPT !.index = i] ELSE m

----------------------------------------------------------------------------
(* The handlers of Buffer *)

enter(m) ==
    IF double_line_response THEN insert(m, m.index, ChNewline) ELSE m

home(m) ==
    LET m1 == move_cursor_left(m, m.index)
    IN  SetIndex(m1, 0)

\* end moving the cursor by the whole length of the text, not by what is left
\* of it after the cursor
end_whole_length(m) ==
    LET m1 == move_cursor_right(m, Len(m.text))
    IN  SetIndex(m1, Len(m1.text))

end(m) ==
    LET m1 == move_cursor_right(m, Len(m.text) - m.index)
    IN  SetIndex(m1, Len(m1.text))

char(m, x) ==
    LET m1 == move_cursor_right(m, Len(m.text) - m.index)
        m2 == clear_chars(m1, Len(m1.text) - m1.index)
        m3 == insert(m2, m2.index, x)
        m4 == write(m3, Slice(m3.text, m3.index, Len(m3.text)))
        m5 == SetIndex(m4, m4.index + 1)
    IN  move_cursor_left(m5, Len(m5.text) - m5.index)

backspace(m) ==
    IF m.index > 0
    THEN LET m1 == clear_line(m)
             m2 == move_cursor_left(m1, Len(m1.text) + Len(prefix))
             m3 == write(m2, prefix)
             m4 == remove(m3, m3.index - 1)
             m5 == SetIndex(m4, m4.index - 1)
             m6 == write(m5, m5.text)
         IN  move_cursor_left(m6, Len(m6.text) - m6.index)
    ELSE m

del(m) ==
    IF Len(m.text) > 0 /\ Len(m.text) > m.index
    THEN LET m1 == remove(m, m.index)
             m2 == clear_line(m1)
             m3 == write(m2, m2.text)
         IN  move_cursor_left(m3, Len(m3.text) - m3.index)
    ELSE m

\* word_forward with `i >= self.index` for `i > self.index`: a cursor on a space
\* stays there
word_forward_at_or_after(m) ==
    LET separater_ids == Append(MatchIndices(m.text, 32), Len(m.text))
        after == SelectSeq(separater_ids, LAMBDA i : i >= m.index)
    IN  IF after = <<>> THEN m
        ELSE LET i == Head(after)
                 m1 == move_cursor_right(m, i - m.index)
             IN  SetIndex(m1, i)

word_forward(m) ==
    LET separater_ids == Append(MatchIndices(m.text, 32), Len(m.text))
        after == SelectSeq(separater_ids, LAMBDA i : i > m.index)
    IN  IF after = <<>> THEN m
        ELSE LET i == Head(after)
                 m1 == move_cursor_right(m, i - m.index)
             IN  SetIndex(m1, i)

\* word_backword without the `+ 1`: it stops on the space, not after it
word_backword_on_space(m) ==
    LET separater_ids == Reverse(<<0>> \o MatchIndices(m.text, 32))
        before == SelectSeq(separater_ids, LAMBDA i : m.index > i)
    IN  IF before = <<>> THEN m
        ELSE LET i == Head(before)
                 m1 == move_cursor_left(m, m.index - i)
             IN  SetIndex(m1, i)

word_backword(m) ==
    LET starts == [k \in 1..Len(MatchIndices(m.text, 32)) |->
                       MatchIndices(m.text, 32)[k] + 1]
        separater_ids == Reverse(<<0>> \o starts)
        before == SelectSeq(separater_ids, LAMBDA i : m.index > i)
    IN  IF before = <<>> THEN m
        ELSE LET i == Head(before)
                 m1 == move_cursor_left(m, m.index - i)
             IN  SetIndex(m1, i)

word_backspace(m) ==
    LET found == SelectSeq(MatchIndices(m.text, 32), LAMBDA n : n < m.index)
        separater_ids == Reverse(<<0>> \o found)
    IN  IF Len(m.text) # 0
        THEN LET target_id == separater_ids[1]
             IN  IF ~(SliceOk(m.text, 0, target_id)
                      /\ SliceOk(m.text, m.index, Len(m.text)))
                 THEN Panic(m)
                 ELSE LET new_text == Slice(m.text, 0, target_id)
                                      \o Slice(m.text, m.index, Len(m.text))
                          m1 == SetIndex(SetText(m, new_text), target_id)
                          m2 == clear_line(m1)
                          m3 == write(m2, m2.text)
                      IN  move_cursor_left(m3, Len(m3.text) - target_id)
        ELSE m

word_delete(m) ==
    LET found == SelectSeq(MatchIndices(m.text, 32), LAMBDA n : n > m.index)
        separater_ids == Append(found, Len(m.text))
        target_id == separater_ids[1]
    IN  IF ~(SliceOk(m.text, 0, m.index)
             /\ SliceOk(m.text, target_id, Len(m.text)))
        THEN Panic(m)
        ELSE LET new_text == Slice(m.text, 0, m.index)
                             \o Slice(m.text, target_id, Len(m.text))
                 m1 == SetText(m, new_text)
                 m2 == clear_line(m1)
                 m3 == write(m2, m2.text)
             IN  move_cursor_left(m3, Len(m3.text) - m3.index)

\* left without its `self.index > 0` test
left_unguarded(m) ==
    LET m1 == move_cursor_left(m, 1)
    IN  SetIndex(m1, m1.index - 1)

left(m) ==
    IF m.index > 0
    THEN LET m1 == move_cursor_left(m, 1)
         IN  SetIndex(m1, m1.index - 1)
    ELSE m

\* right without its `self.index < self.text.len()` test
right_unguarded(m) ==
    LET m1 == move_cursor_right(m, 1)
    IN  SetIndex(m1, m1.index + 1)

right(m) ==
    IF m.index < Len(m.text)
    THEN LET m1 == move_cursor_right(m, 1)
         IN  SetIndex(m1, m1.index + 1)
    ELSE m

----------------------------------------------------------------------------
(* read_line: the loop and its dispatch.  One action per arm of the match, *)
(* from the key being read to the loop being back at read_key.             *)

NoRun == [op |-> "none", n |-> 0, text |-> <<>>, index |-> 0, args |-> <<>>]

\* the run of consecutive `op` handlers after one more of them
NextRun(op, arg) ==
    IF op \notin {"char", "del"} THEN NoRun
    ELSE IF run.op = op /\ run.n < MaxRun
         THEN [run EXCEPT !.n = @ + 1, !.args = @ \o arg]
         ELSE [op |-> op, n |-> 1, text |-> text, index |-> index, args |-> arg]

\* what the last handler was: its name, the key and char it got, the buffer
\* it started from, and how it ended (filled in by Finish)
Started(op, key, arg) ==
    [op |-> op, key |-> key, arg |-> arg,
     text |-> text, index |-> index, st |-> "ok"]

\* the handler's run m becomes the state; read_line goes on to `next` when
\* the handler returned Ok, and returns the error or unwinds otherwise
Finish(m, op, key, arg, next, k) ==
    /\ text' = m.text
    /\ index' = m.index
    /\ col' = m.col
    /\ calls' = m.calls
    /\ pc' = IF m.st = "ok" THEN next ELSE m.st
    /\ ret' = IF m.st = "ok" /\ next = "done" THEN k ELSE ret
    /\ last' = [Started(op, key, arg) EXCEPT !.st = m.st]
    /\ run' = IF m.st = "ok" THEN NextRun(op, arg) ELSE NoRun
    /\ UNCHANGED <<prefix, double_line_response, terminate_on_up_down>>
    /\ UNCHANGED selvars

\* the terminal calls that can fail in a handler's run, by number, m0 being
\* the run in which none fails; 0 stands for no failure
FailPoints(m0) == 0..Len(m0.calls)

\* a date and time of day, as the calendar has it
DateTime(y, mo, d, h, mi, s) ==
    [year |-> y, month |-> mo, day |-> d, hour |-> h, minute |-> mi, second |-> s]

\* no selector is in use
NoSelector ==
    /\ question_msg = <<>>
    /\ msg = <<>>
    /\ items = <<>>
    /\ seq = 0
    /\ table = <<>>
    /\ date_name = <<>>
    /\ has_time = FALSE
    /\ active_field = "Day"
    /\ date = DateTime(2024, 1, 1, 0, 0, 0)
    /\ hist = <<>>
    /\ failed = FALSE

Init ==
    /\ NoSelector
    /\ text \in Seeds
    /\ index = 0
    /\ \E c \in Configs :
           /\ prefix = c[1]
           /\ double_line_response = c[2]
           /\ terminate_on_up_down = c[3]
    /\ col = 0
    /\ pc = "start"
    /\ ret = "none"
    /\ last = [op |-> "new", key |-> "none", arg |-> <<>>,
               text |-> text, index |-> 0, st |-> "ok"]
    /\ calls = <<>>
    /\ run = NoRun

\* read_line is called: the prefix is written, the loop blocks in read_key
ReadLine ==
    /\ pc = "start"
    /\ \E f \in 0..1 :
           Finish(write(Start(f), prefix), "read_line", "none", <<>>, "loop", "none")

\* read_key returns Err, at the top of the loop or inside esc
ReadKeyFails ==
    /\ pc \in {"loop", "esc"}
    /\ Finish([Start(0) EXCEPT !.st = "err"], "read_key", "none", <<>>, pc, "none")

KeyEnter ==
    /\ pc = "loop"
    /\ Finish(enter(Start(0)), "enter", "Enter", <<>>, "done", "Enter")

KeyHome ==
    /\ pc = "loop"
    /\ \E f \in FailPoints(home(Start(0))) :
           Finish(home(Start(f)), "home", "Home", <<>>, "loop", "none")

KeyEnd ==
    /\ pc = "loop"
    /\ \E f \in FailPoints(end(Start(0))) :
           Finish(end(Start(f)), "end", "End", <<>>, "loop", "none")

KeyArrowRight ==
    /\ pc = "loop"
    /\ \E f \in FailPoints(right(Start(0))) :
           Finish(right(Start(f)), "right", "ArrowRight", <<>>, "loop", "none")

KeyArrowLeft ==
    /\ pc = "loop"
    /\ \E f \in FailPoints(left(Start(0))) :
           Finish(left(Start(f)), "left", "ArrowLeft", <<>>, "loop", "none")

KeyBackspace ==
    /\ pc = "loop"
    /\ \E f \in FailPoints(backspace(Start(0))) :
           Finish(backspace(Start(f)), "backspace", "Backspace", <<>>, "loop", "none")

KeyDel ==
    /\ pc = "loop"
    /\ \E f \in FailPoints(del(Start(0))) :
           Finish(del(Start(f)), "del", "Del", <<>>, "loop", "none")

\* Key::Char(x), for a char x of `typed`
KeyCharOf(typed) ==
    /\ pc = "loop"
    /\ \E x \in typed :
           /\ Len(text) + Len(x) <= MaxLen
           /\ \E f \in FailPoints(char(Start(0), x)) :
                  Finish(char(Start(f), x), "char", "Char", x, "loop", "none")

KeyChar == KeyCharOf(TypedChars)

\* Key::Escape: esc() is entered and blocks in its own read_key
KeyEscape ==
    /\ pc = "loop"
    /\ Finish(Start(0), "esc", "Escape", <<>>, "esc", "none")

EscCharF ==
    /\ pc = "esc"
    /\ \E f \in FailPoints(word_forward(Start(0))) :
           Finish(word_forward(Start(f)), "word_forward", "Char", ChF, "loop", "none")

EscCharB ==
    /\ pc = "esc"
    /\ \E f \in FailPoints(word_backword(Start(0))) :
           Finish(word_backword(Start(f)), "word_backword", "Char", ChB, "loop", "none")

EscCharD ==
    /\ pc = "esc"
    /\ \E f \in FailPoints(word_delete(Start(0))) :
           Finish(word_delete(Start(f)), "word_delete", "Char", ChD, "loop", "none")

EscBackspace ==
    /\ pc = "esc"
    /\ \E f \in FailPoints(word_backspace(Start(0))) :
           Finish(word_backspace(Start(f)), "word_backspace", "Backspace", <<>>, "loop", "none")

\* the keys esc() has no arm for
EscOtherKeys ==
    {<<"Enter", <<>>>>, <<"ArrowUp", <<>>>>, <<"ArrowDown", <<>>>>,
     <<"Escape", <<>>>>, <<"Char", ChSpace>>}

\* esc() handing a key it has no arm for back to read_line's own arms
EscOtherAsTopLevel ==
    /\ pc = "esc"
    /\ \E k \in EscOtherKeys :
           Finish(Start(0), "esc_other", k[1], k[2],
                  IF k[1] = "Enter" \/ (k[1] \in {"ArrowUp", "ArrowDown"}
                                        /\ terminate_on_up_down)
                  THEN "done" ELSE "loop", k[1])

EscOther ==
    /\ pc = "esc"
    /\ \E k \in EscOtherKeys :
           Finish(Start(0), "esc_other", k[1], k[2], "loop", "none")

KeyArrowUp ==
    /\ pc = "loop"
    /\ Finish(Start(0), "up", "ArrowUp", <<>>,
              IF terminate_on_up_down THEN "done" ELSE "loop", "ArrowUp")

KeyArrowDown ==
    /\ pc = "loop"
    /\ Finish(Start(0), "down", "ArrowDown", <<>>,
              IF terminate_on_up_down THEN "done" ELSE "loop", "ArrowDown")

\* the keys read_line has no arm for
OtherKeys == {"Tab", "Unknown"}

KeyOther ==
    /\ pc = "loop"
    /\ \E k \in OtherKeys : Finish(Start(0), "other", k, <<>>, "loop", "none")

Next ==
    \/ ReadLine
    \/ ReadKeyFails
    \/ KeyEnter
    \/ KeyHome
    \/ KeyEnd
    \/ KeyArrowRight
    \/ KeyArrowLeft
    \/ KeyBackspace
    \/ KeyDel
    \/ KeyChar
    \/ KeyEscape
    \/ EscCharF
    \/ EscCharB
    \/ EscCharD
    \/ EscBackspace
    \/ EscOther
    \/ KeyArrowUp
    \/ KeyArrowDown
    \/ KeyOther

Spec == Init /\ [][Next]_vars

\* The same editor when every char of the seed text and every char typed is
\* one byte long (ASCII).
IsAscii(s) == \A i \in 1..Len(s) : s[i] < 128

InitAscii == Init /\ IsAscii(text)

KeyCharAscii == KeyCharOf({x \in TypedChars : IsAscii(x)})

NextAscii ==
    \/ ReadLine
    \/ ReadKeyFails
    \/ KeyEnter
    \/ KeyHome
    \/ KeyEnd
    \/ KeyArrowRight
    \/ KeyArrowLeft
    \/ KeyBackspace
    \/ KeyDel
    \/ KeyCharAscii
    \/ KeyEscape
    \/ EscCharF
    \/ EscCharB
    \/ EscCharD
    \/ EscBackspace
    \/ EscOther
    \/ KeyArrowUp
    \/ KeyArrowDown
    \/ KeyOther

SpecAscii == InitAscii /\ [][NextAscii]_vars

----------------------------------------------------------------------------
(* What the claims speak of *)

\* read_line is blocked in read_key at the top of its loop
AtLoop == pc = "loop"

\* the last handler ran to its end: no terminal call failed and nothing panicked
Completed(op) == last.op = op /\ last.st = "ok"

\* the last handler was `op` and no terminal call of it failed
Ran(op) == last.op = op /\ last.st # "err"

\* the handlers a key read at the top of the loop is dispatched to
TopLevelOps ==
    {"enter", "home", "end", "right", "left", "backspace", "del", "char",
     "esc", "up", "down", "other"}

----------------------------------------------------------------------------
(* C1: the cursor index is an offset into the text in every reachable      *)
(* state, before and after every handler: 0 <= index <= len(text),         *)
(* whatever keys read_line dispatched.                                     *)
IndexInText ==
    /\ index \in 0..Len(text)
    /\ last.index \in 0..Len(last.text)

\* a word was deleted backwards from the end of the text, and the cursor is
\* at the new end, which is not the start
IndexInTextWitness ==
    /\ Completed("word_backspace")
    /\ last.index = Len(last.text)
    /\ index = Len(text)
    /\ index > 0
    /\ index < last.index

(* C2: whenever read_line blocks for the next key, the terminal's cursor   *)
(* column is len(prefix) + index, for any prefix.                          *)
CursorInLockStep == AtLoop => col = Len(prefix) + index

(* C3: read_line returns exactly when the key read at the top of the loop  *)
(* is Enter (it returns Enter) or, with terminate_on_up_down set, ArrowUp  *)
(* or ArrowDown (it returns that key); with terminate_on_up_down unset the *)
(* arrows change neither text nor index; every other key keeps the loop    *)
(* running.  Terminal failures apart.                                      *)
ReturnsExactlyOnAccept ==
    /\ pc = "done" =>
          /\ last.key \in {"Enter", "ArrowUp", "ArrowDown"}
          /\ last.key # "Enter" => terminate_on_up_down
          /\ ret = last.key
    /\ (last.op \in TopLevelOps /\ last.st # "err") =>
          IF last.key = "Enter" THEN pc = "done" /\ ret = "Enter"
          ELSE IF last.key \in {"ArrowUp", "ArrowDown"}
               THEN /\ text = last.text
                    /\ index = last.index
                    /\ pc = (IF terminate_on_up_down THEN "done" ELSE "loop")
          ELSE pc \in {"loop", "esc"}
    /\ last.op \notin (TopLevelOps \cup {"new", "read_line", "read_key"}) =>
          pc # "done"

\* the least and the greatest number of a non-empty set of numbers
Least(S) == CHOOSE x \in S : \A y \in S : x <= y
Greatest(S) == CHOOSE x \in S : \A y \in S : x >= y

\* the offsets of t that hold an ASCII space
SpaceOffsets(t) == {p \in 0..(Len(t) - 1) : t[p + 1] = 32}

\* the smallest offset above i that holds a space, or len(t)
NextSpaceOrEnd(t, i) ==
    LET above == {p \in SpaceOffsets(t) : p > i}
    IN  IF above = {} THEN Len(t) ELSE Least(above)

\* the word starts: 0 and one past every space
WordStarts(t) == {0} \cup {p + 1 : p \in SpaceOffsets(t)}

\* t without its offsets a..b-1
Without(t, a, b) == SubSeq(t, 1, a) \o SubSeq(t, b + 1, Len(t))

\* t with the string c put in at offset i
WithAt(t, i, c) == SubSeq(t, 1, i) \o c \o SubSeq(t, i + 1, Len(t))

\* the offset at which the char that starts at offset o of t ends
CharEnd(t, o) ==
    Least({e \in (o + 1)..Len(t) : e = Len(t) \/ ~IsContinuation(t[e + 1])})

RECURSIVE DropChars(_, _)
\* t without its first k chars (nothing is left when it has no more than k)
DropChars(t, k) ==
    IF k = 0 \/ t = <<>> THEN t
    ELSE DropChars(SubSeq(t, CharEnd(t, 0) + 1, Len(t)), k - 1)

(* C4: char(c) at cursor position i gives text = old[0..i] ++ c ++         *)
(* old[i..] and index = i + 1; typing a string s char by char at i gives   *)
(* old[0..i] ++ s ++ old[i..] and index = i + len(s), len(s) counted in    *)
(* chars as the index is.                                                  *)
CharInsertsAtCursor ==
    /\ Ran("char") =>
          /\ last.st = "ok"
          /\ text = WithAt(last.text, last.index, last.arg)
          /\ index = last.index + 1
    /\ run.op = "char" =>
          /\ text = WithAt(run.text, run.index, run.args)
          /\ index = run.index + run.n

(* C5: backspace() changes nothing when index = 0; otherwise it removes    *)
(* exactly the character at offset index-1 (the whole of it) and           *)
(* decrements index by 1.                                                  *)
BackspaceRemovesOne ==
    Ran("backspace") =>
        /\ last.st = "ok"
        /\ IF last.index = 0
           THEN text = last.text /\ index = 0
           ELSE /\ text = Without(last.text, last.index - 1,
                                   CharEnd(last.text, last.index - 1))
                /\ index = last.index - 1

(* C6: k del()s at index i give text = old[0..i] ++ old[i+min(k,len-i)..], *)
(* the first k characters after the cursor gone or all of them, with index *)
(* still i; del() at or past the end changes nothing.                      *)
DelRemovesAhead ==
    /\ Ran("del") => last.st = "ok"
    /\ run.op = "del" =>
          /\ index = run.index
          /\ text = SubSeq(run.text, 1, run.index)
                    \o DropChars(SubSeq(run.text, run.index + 1, Len(run.text)),
                                 run.n)

(* C7: char(c) immediately followed by backspace() restores the text and   *)
(* the index, for any text, any index in 0..len(text) and any char.        *)
CharBackspaceRoundTrip ==
    [][/\ (last'.op = "char" /\ last'.st # "err") => last'.st = "ok"
       /\ (Completed("char") /\ last'.op = "backspace" /\ last'.st # "err") =>
              /\ last'.st = "ok"
              /\ text' = last.text
              /\ index' = last.index]_vars

(* C8: word_forward from index i sets index to the smallest offset j > i   *)
(* that holds an ASCII space (no other whitespace counts), or len(text),   *)
(* by one cursor-right of j - i columns; the text is unchanged; at         *)
(* i = len(text) nothing happens.                                          *)
WordForwardToNextSpace ==
    Ran("word_forward") =>
        LET i == last.index
            j == NextSpaceOrEnd(last.text, i)
        IN  /\ last.st = "ok"
            /\ text = last.text
            /\ index = j
            /\ calls = IF i = Len(last.text) THEN <<>>
                       ELSE <<[op |-> "right", n |-> j - i]>>

\* word_forward went over a tab and stopped at a space before the end
WordForwardWitness ==
    /\ Completed("word_forward")
    /\ index < Len(text)
    /\ text[index + 1] = 32
    /\ \E k \in (last.index + 1)..index : text[k] = 9

(* C9: word_backword from index i sets index to the largest word start     *)
(* (0, or one past a space) below i, moving the cursor left by the         *)
(* difference; the text is unchanged; at i = 0 nothing happens.            *)
WordBackwardToWordStart ==
    Ran("word_backword") =>
        LET i == last.index
            below == {w \in WordStarts(last.text) : w < i}
        IN  /\ last.st = "ok"
            /\ text = last.text
            /\ IF i = 0
               THEN index = 0 /\ calls = <<>>
               ELSE /\ index = Greatest(below)
                    /\ calls = <<[op |-> "left", n |-> i - index]>>

\* word_backword stopped one past a space, not at the start of the text
WordBackwardWitness ==
    /\ Completed("word_backword")
    /\ index > 0
    /\ index < last.index
    /\ text[index] = 32

(* C10: word_delete from index i removes exactly the span [i, j), j the    *)
(* smallest offset above i that holds a space, or len(text); index stays   *)
(* i; so also when the cursor is on a space and when i = len(text).        *)
WordDeleteRemovesSpan ==
    Ran("word_delete") =>
        /\ last.st = "ok"
        /\ index = last.index
        /\ text = Without(last.text, last.index,
                          NextSpaceOrEnd(last.text, last.index))

(* C11: word_backspace from index i removes exactly the span [p, i), p the *)
(* largest offset below i that holds an ASCII space, or 0 when there is    *)
(* none: text = old[0..p] ++ old[i..] and index = p; at i = 0 and on an    *)
(* empty buffer text and index are unchanged.                              *)
WordBackspaceRemovesSpan ==
    Ran("word_backspace") =>
        LET i == last.index
            below == {q \in SpaceOffsets(last.text) : q < i}
            p == IF below = {} THEN 0 ELSE Greatest(below)
        IN  /\ last.st = "ok"
            /\ text = Without(last.text, p, i)
            /\ index = p
            /\ (i = 0 \/ last.text = <<>>) =>
                   text = last.text /\ index = last.index

(* C12: home() sets index to 0 by one cursor-left of the old index         *)
(* columns, end() sets index to len(text) by one cursor-right of           *)
(* len(text) - old index columns; neither changes the text; home then end  *)
(* leaves index = len(text), end then home leaves index = 0, and a         *)
(* repeated home or end changes nothing and moves by 0 columns.            *)
HomeEndMoves ==
    [][/\ (last'.op = "home" /\ last'.st # "err") =>
              /\ last'.st = "ok"
              /\ index' = 0
              /\ text' = text
              /\ calls' = <<[op |-> "left", n |-> index]>>
       /\ (last'.op = "end" /\ last'.st # "err") =>
              /\ last'.st = "ok"
              /\ index' = Len(text)
              /\ text' = text
              /\ calls' = <<[op |-> "right", n |-> Len(text) - index]>>
       /\ (Completed("home") /\ last'.op = "end" /\ last'.st # "err") =>
              index' = Len(text') /\ text' = last.text
       /\ (Completed("end") /\ last'.op = "home" /\ last'.st # "err") =>
              index' = 0 /\ text' = last.text
       /\ (Completed("home") /\ last'.op = "home" /\ last'.st # "err") =>
              index' = index /\ calls' = <<[op |-> "left", n |-> 0]>>
       /\ (Completed("end") /\ last'.op = "end" /\ last'.st # "err") =>
              index' = index /\ calls' = <<[op |-> "right", n |-> 0]>>]_vars

\* end ran from strictly inside a text: the cursor went right by what was left
HomeEndWitness ==
    /\ Completed("end")
    /\ last.index > 0
    /\ last.index < Len(text)
    /\ index = Len(text)
    /\ calls = <<[op |-> "right", n |-> Len(text) - last.index]>>

(* C13: left() takes 1 from index when index > 0 and does nothing (no      *)
(* terminal call) at index = 0; right() adds 1 when index < len(text) and  *)
(* does nothing at index = len(text); neither changes the text.            *)
LeftRightStepOne ==
    /\ Ran("left") =>
          /\ last.st = "ok"
          /\ text = last.text
          /\ IF last.index > 0
             THEN index = last.index - 1 /\ calls = <<[op |-> "left", n |-> 1]>>
             ELSE index = last.index /\ calls = <<>>
    /\ Ran("right") =>
          /\ last.st = "ok"
          /\ text = last.text
          /\ IF last.index < Len(last.text)
             THEN index = last.index + 1 /\ calls = <<[op |-> "right", n |-> 1]>>
             ELSE index = last.index /\ calls = <<>>

\* left did nothing at the start of a text that is not empty
LeftRightWitness ==
    /\ Completed("left")
    /\ last.index = 0
    /\ Len(text) > 0
    /\ index = 0
    /\ calls = <<>>

\* how many of the bytes of t are b
Count(t, b) == Cardinality({k \in 1..Len(t) : t[k] = b})

(* C14: Enter changes the text exactly when double_line_response is set:   *)
(* then text = old[0..index] ++ "\n" ++ old[index..], wherever the cursor  *)
(* is, and index stays; unset, text and index stay.  So the accepted line  *)
(* holds one newline when the flag is set (read_line2) and none when it is *)
(* not (read_line), none being typed or seeded.                            *)
EnterNewlineIffDouble ==
    Ran("enter") =>
        /\ last.st = "ok"
        /\ index = last.index
        /\ text = IF double_line_response
                  THEN WithAt(last.text, last.index, ChNewline)
                  ELSE last.text
        /\ Count(text, 10) = IF double_line_response THEN 1 ELSE 0

----------------------------------------------------------------------------
(* The selectors (src/src/selector.rs).  What an entry point returns is an *)
(* io::Result: Ok(v), or Err(e) with e an io::Error of a kind and with a   *)
(* message.  Nothing has been returned while ret is the empty tuple.       *)

Ok(v) == <<"Ok", v>>
Err(kind, message) == <<"Err", kind, message>>

\* Ok or Err
Variant(r) == r[1]

\* the io::Error a failed call of the terminal hands back
TerminalError == Err("terminal", "")

\* write!(term, "{}\n", s): the text and a newline, the cursor goes to column 0
write_ln(m, s) == TermCall(m, "write", Len(s) + 1, TRUE, 0)

\* Term::clear_screen: erases the screen, cursor to the top left
clear_screen(m) == TermCall(m, "clear_screen", 0, TRUE, 0)

\* the selectors keep the Buffer out of it
NoBuffer ==
    /\ text = <<>>
    /\ index = 0
    /\ prefix = <<>>
    /\ double_line_response = FALSE
    /\ terminate_on_up_down = FALSE
    /\ last = [op |-> "new", key |-> "none", arg |-> <<>>,
               text |-> <<>>, index |-> 0, st |-> "ok"]
    /\ run = NoRun

----------------------------------------------------------------------------
(* ask_yes_no *)

\* longest stream of keys a selector is followed over, its last key apart
MaxKeys == 3

\* ": " and "Answer with y or n: "
ColonSpace == <<58, 32>>
AnswerWithYOrN ==
    <<65, 110, 115, 119, 101, 114, 32, 119, 105, 116, 104, 32, 121, 32, 111,
      114, 32, 110, 58, 32>>

\* the questions asked: none, "d" and one of a two-byte char
Questions == {<<>>, ChD, ChEacute}

\* the keys read_key hands to ask_yes_no
YesNoKeys == {"Y", "y", "N", "n", "q", "Enter", "Escape"}

StartAsk(f) ==
    [msg |-> msg, col |-> col, calls |-> <<>>, st |-> "ok", fail |-> f]

SetMsg(m, s) == IF m.st = "ok" THEN [m EXCEPT !.msg = s] ELSE m

\* the arm of the match a key takes, Y and y only for y
ask_yes_no_match_lowercase(k) ==
    IF k = "y" THEN "true" ELSE IF k \in {"N", "n"} THEN "false" ELSE "other"

\* the arm of the match a key takes
ask_yes_no_match(k) ==
    IF k \in {"Y", "y"} THEN "true"
    ELSE IF k \in {"N", "n"} THEN "false"
    ELSE "other"

\* up to the loop: the prompt is made and written
ask_yes_no_prompt(m) ==
    LET m1 == SetMsg(m, question_msg \o ColonSpace)
    IN  write(m1, m1.msg)

ask_yes_no_true(m) == write_ln(m, <<121>>)

ask_yes_no_false(m) == write_ln(m, <<110>>)

ask_yes_no_other(m) ==
    LET m1 == clear_chars(m, Len(m.msg))
        m2 == move_cursor_left(m1, Len(m1.msg))
        m3 == SetMsg(m2, AnswerWithYOrN)
    IN  write(m3, m3.msg)

\* the run m becomes the state: ask_yes_no goes on to `next` when no call
\* failed, and returns the error otherwise
FinishAsk(m, key, next, r) ==
    /\ msg' = m.msg
    /\ col' = m.col
    /\ calls' = m.calls
    /\ pc' = IF m.st = "ok" THEN next ELSE m.st
    /\ ret' = IF m.st = "err" THEN TerminalError
              ELSE IF m.st = "ok" /\ next = "done" THEN r ELSE ret
    /\ failed' = (m.st = "err")
    /\ hist' = IF key = "none" THEN hist ELSE Append(hist, key)
    /\ UNCHANGED <<question_msg, items, seq, table, date_name, has_time,
                   active_field, date>>
    /\ UNCHANGED bufvars

InitYesNo ==
    /\ NoBuffer
    /\ question_msg \in Questions
    /\ msg = <<>>
    /\ items = <<>>
    /\ seq = 0
    /\ table = <<>>
    /\ date_name = <<>>
    /\ has_time = FALSE
    /\ active_field = "Day"
    /\ date = DateTime(2024, 1, 1, 0, 0, 0)
    /\ hist = <<>>
    /\ failed = FALSE
    /\ col = 0
    /\ pc = "start"
    /\ ret = <<>>
    /\ calls = <<>>

\* ask_yes_no is called: the prompt is written, the loop blocks in read_key
AskYesNo ==
    /\ pc = "start"
    /\ \E f \in FailPoints(ask_yes_no_prompt(StartAsk(0))) :
           FinishAsk(ask_yes_no_prompt(StartAsk(f)), "none", "yn_key", <<>>)

\* read_key returns Err: the unwrap panics
YesNoReadKeyFails ==
    /\ pc = "yn_key"
    /\ pc' = "panic"
    /\ failed' = TRUE
    /\ UNCHANGED <<col, ret, calls, question_msg, msg, items, seq, table,
                   date_name, has_time, active_field, date, hist>>
    /\ UNCHANGED bufvars

YesNoKeyYes ==
    /\ pc = "yn_key"
    /\ \E k \in YesNoKeys :
           /\ ask_yes_no_match(k) = "true"
           /\ \E f \in FailPoints(ask_yes_no_true(StartAsk(0))) :
                  FinishAsk(ask_yes_no_true(StartAsk(f)), k, "done", Ok(TRUE))

YesNoKeyNo ==
    /\ pc = "yn_key"
    /\ \E k \in YesNoKeys :
           /\ ask_yes_no_match(k) = "false"
           /\ \E f \in FailPoints(ask_yes_no_false(StartAsk(0))) :
                  FinishAsk(ask_yes_no_false(StartAsk(f)), k, "done", Ok(FALSE))

YesNoKeyOther ==
    /\ pc = "yn_key"
    /\ Len(hist) < MaxKeys
    /\ \E k \in YesNoKeys :
           /\ ask_yes_no_match(k) = "other"
           /\ \E f \in FailPoints(ask_yes_no_other(StartAsk(0))) :
                  FinishAsk(ask_yes_no_other(StartAsk(f)), k, "yn_key", <<>>)

NextYesNo ==
    \/ AskYesNo
    \/ YesNoReadKeyFails
    \/ YesNoKeyYes
    \/ YesNoKeyNo
    \/ YesNoKeyOther

SpecYesNo == InitYesNo /\ [][NextYesNo]_vars

(* C15: a failure of any terminal operation (read_key, cursor move, clear, *)
(* write) during a blocking entry point is returned to the caller of that  *)
(* loop as the I/O error: never swallowed, never a process abort.  Here    *)
(* for ask_yes_no.                                                         *)
TerminalFailureReturned ==
    failed => (pc = "err" /\ ret = TerminalError)

\* the keys that answer the question
Decisive == {"Y", "y", "N", "n"}

(* C18: ask_yes_no returns true exactly when the first of the keys y, Y,   *)
(* n, N in the key stream is y or Y, and false exactly when it is n or N;  *)
(* every other key before it keeps the loop running and re-prompts with    *)
(* the corrective message; the loop returns on no other key.  Terminal     *)
(* failures apart.                                                         *)
YesNoAnswers ==
    LET n == Len(hist)
        shown == IF n = 1 THEN question_msg \o ColonSpace ELSE AnswerWithYOrN
    IN  /\ \A i \in 1..(n - 1) : hist[i] \notin Decisive
        /\ pc = "done" =>
              /\ n > 0
              /\ hist[n] \in Decisive
              /\ ret = Ok(hist[n] \in {"Y", "y"})
        /\ (n > 0 /\ hist[n] \in Decisive /\ ~failed) => pc = "done"
        /\ (n > 0 /\ hist[n] \notin Decisive /\ ~failed) =>
              /\ pc = "yn_key"
              /\ msg = AnswerWithYOrN
              /\ calls = <<[op |-> "clear_chars", n |-> Len(shown)],
                           [op |-> "left", n |-> Len(shown)],
                           [op |-> "write", n |-> Len(AnswerWithYOrN)]>>

\* the answer was no, after two keys that are no answer
YesNoWitness ==
    /\ pc = "done"
    /\ ret = Ok(FALSE)
    /\ Len(hist) >= 3
    /\ hist[1] = "Enter"
    /\ hist[2] = "q"

----------------------------------------------------------------------------
(* select_word_from_words *)

\* most items a list handed to select_word_from_words has
MaxItems == 3

\* the description shown above the list
description == ChD

\* the i-th item of a list: "A", "B", ...
Item(i) == <<64 + i>>

\* the lists: of no item, of one, ... of MaxItems
ItemLists == {[i \in 1..n |-> Item(i)] : n \in 0..MaxItems}

\* "\x1b[32m*\x1b[0m", the marker of the selected row, and " ", that of the others
Marker == <<27, 91, 51, 50, 109, 42, 27, 91, 48, 109>>
Blank == ChSpace

\* the keys read_key hands to select_word_from_words, by the arm they take
UpKeys == {"ArrowUp", "k"}
DownKeys == {"ArrowDown", "j"}
QuitKeys == {"q", "Q", "Escape"}
PickOtherKeys == {"x"}

StartPick(f) ==
    [seq |-> seq, table |-> table, col |-> col, calls |-> <<>>,
     st |-> "ok", fail |-> f]

SetSeq(m, v) == IF m.st = "ok" THEN [m EXCEPT !.seq = v] ELSE m
SetTable(m, t) == IF m.st = "ok" THEN [m EXCEPT !.table = t] ELSE m

\* the ArrowUp arm without the wrap to the last row
seq_up_no_wrap(s, word_count) == IF s = 0 THEN 0 ELSE s - 1

\* the ArrowUp | Char('k') arm
seq_up(s, word_count) == IF s = 0 THEN word_count - 1 ELSE s - 1

\* the ArrowDown | Char('j') arm
seq_down(s, word_count) == IF s = word_count - 1 THEN 0 ELSE s + 1

\* up to the loop.  `word_count - 1` of an empty list overflows: the build
\* with overflow checks panics there, the build without them pushes rows
\* until memory runs out; neither gets to the loop.
select_word_setup(m) ==
    LET word_count == Len(items)
        m1 == clear_line(m)
        m2 == SetTable(m1, <<Marker>>)
    IN  IF word_count - 1 < 0 THEN Panic(m2)
        ELSE SetTable(m2, <<Marker>> \o [i \in 1..(word_count - 1) |-> Blank])

RECURSIVE write_rows(_, _)
\* for i in i..word_count { write!(&term, "{} {}\n", table[i], items[i])? }
write_rows(m, i) ==
    IF i >= Len(items) \/ m.st # "ok" THEN m
    ELSE IF i >= Len(m.table) THEN Panic(m)
    ELSE write_rows(write_ln(m, m.table[i + 1] \o ChSpace \o items[i + 1]), i + 1)

\* the top of the loop, down to read_key
render(m) ==
    LET m1 == clear_screen(m)
        m2 == write_ln(m1, description)
    IN  write_rows(m2, 0)

\* the rows are marked anew, the selected one with the marker
mark_rows(m) ==
    SetTable(m, [i \in 1..Len(items) |->
                    IF i - 1 = m.seq THEN Marker ELSE Blank])

\* a key that moves the selection to v (or leaves it), and the next render
select_word_move(m, v) == render(mark_rows(SetSeq(m, v)))

\* q, Q, Escape, and Enter: the screen is cleared before the return
select_word_leave(m) == clear_screen(m)

FinishPick(m, key, next, r) ==
    /\ seq' = m.seq
    /\ table' = m.table
    /\ col' = m.col
    /\ calls' = m.calls
    /\ pc' = IF m.st = "ok" THEN next ELSE m.st
    /\ ret' = IF m.st = "err" THEN TerminalError
              ELSE IF m.st = "ok" /\ next = "done" THEN r ELSE ret
    /\ failed' = (m.st = "err")
    /\ hist' = IF key = "none" THEN hist ELSE Append(hist, key)
    /\ UNCHANGED <<question_msg, msg, items, date_name, has_time,
                   active_field, date>>
    /\ UNCHANGED bufvars

InitPicker ==
    /\ NoBuffer
    /\ question_msg = <<>>
    /\ msg = <<>>
    /\ items \in ItemLists
    /\ seq = 0
    /\ table = <<>>
    /\ date_name = <<>>
    /\ has_time = FALSE
    /\ active_field = "Day"
    /\ date = DateTime(2024, 1, 1, 0, 0, 0)
    /\ hist = <<>>
    /\ failed = FALSE
    /\ col = 0
    /\ pc = "start"
    /\ ret = <<>>
    /\ calls = <<>>

\* select_word_from_words is called: the list is drawn, the loop blocks in
\* read_key
SelectWord ==
    /\ pc = "start"
    /\ \E f \in FailPoints(render(select_word_setup(StartPick(0)))) :
           FinishPick(render(select_word_setup(StartPick(f))),
                      "none", "pick_key", <<>>)

\* read_key returns Err: the unwrap panics
PickReadKeyFails ==
    /\ pc = "pick_key"
    /\ pc' = "panic"
    /\ failed' = TRUE
    /\ UNCHANGED <<col, ret, calls, question_msg, msg, items, seq, table,
                   date_name, has_time, active_field, date, hist>>
    /\ UNCHANGED bufvars

PickKeyUp ==
    /\ pc = "pick_key"
    /\ Len(hist) < MaxKeys
    /\ \E k \in UpKeys :
           LET v == seq_up(seq, Len(items))
           IN  \E f \in FailPoints(select_word_move(StartPick(0), v)) :
                   FinishPick(select_word_move(StartPick(f), v),
                              k, "pick_key", <<>>)

PickKeyDown ==
    /\ pc = "pick_key"
    /\ Len(hist) < MaxKeys
    /\ \E k \in DownKeys :
           LET v == seq_down(seq, Len(items))
           IN  \E f \in FailPoints(select_word_move(StartPick(0), v)) :
                   FinishPick(select_word_move(StartPick(f), v),
                              k, "pick_key", <<>>)

PickKeyQuit ==
    /\ pc = "pick_key"
    /\ \E k \in QuitKeys :
           \E f \in FailPoints(select_word_leave(StartPick(0))) :
               FinishPick(select_word_leave(StartPick(f)),
                          k, "done", Err("Other", "quit"))

PickKeyEnter ==
    /\ pc = "pick_key"
    /\ \E f \in FailPoints(select_word_leave(StartPick(0))) :
           FinishPick(select_word_leave(StartPick(f)),
                      "Enter", "done", Ok(items[seq + 1]))

PickKeyOther ==
    /\ pc = "pick_key"
    /\ Len(hist) < MaxKeys
    /\ \E k \in PickOtherKeys :
           \E f \in FailPoints(select_word_move(StartPick(0), seq)) :
               FinishPick(select_word_move(StartPick(f), seq),
                          k, "pick_key", <<>>)

NextPicker ==
    \/ SelectWord
    \/ PickReadKeyFails
    \/ PickKeyUp
    \/ PickKeyDown
    \/ PickKeyQuit
    \/ PickKeyEnter
    \/ PickKeyOther

SpecPicker == InitPicker /\ [][NextPicker]_vars

\* the last key the selector read
LastKey == hist[Len(hist)]

(* C16: in the list picker, cancelling with q, Q or Escape yields an       *)
(* outcome of its own that is no I/O error: the result alone tells         *)
(* "cancelled, nothing selected" from a failure of the terminal, which     *)
(* comes back as the Err (an io::Error) of the io::Result.                  *)
CancelIsNoIoError ==
    (hist # <<>> /\ LastKey \in QuitKeys /\ ~failed) =>
        /\ pc = "done"
        /\ Variant(ret) # Variant(TerminalError)

RECURSIVE SelectedAfter(_, _)
\* the selection index after the keys h on a list of n items: 0 at first,
\* up and down with their wraps, any other key leaving it
SelectedAfter(h, n) ==
    IF h = <<>> THEN 0
    ELSE LET s == SelectedAfter(SubSeq(h, 1, Len(h) - 1), n)
             k == h[Len(h)]
         IN  IF k \in UpKeys THEN (IF s = 0 THEN n - 1 ELSE s - 1)
             ELSE IF k \in DownKeys THEN (IF s = n - 1 THEN 0 ELSE s + 1)
             ELSE s

(* C17: on a list of n >= 1 items the selection index starts at 0;         *)
(* ArrowUp or k takes s to n-1 if s = 0, else to s-1; ArrowDown or j takes *)
(* s to 0 if s = n-1, else to s+1; any other key that does not end the     *)
(* loop leaves s; Enter returns items[s]; q, Q and Escape cancel.  After   *)
(* u ups and d downs Enter returns items[(d - u) mod n].  Terminal         *)
(* failures apart.                                                         *)
PickerSelects ==
    Len(items) >= 1 =>
        LET n == Len(items)
            u == Cardinality({i \in 1..Len(hist) : hist[i] \in UpKeys})
            d == Cardinality({i \in 1..Len(hist) : hist[i] \in DownKeys})
        IN  /\ seq = SelectedAfter(hist, n)
            /\ seq = (d - u) % n
            /\ pc = "done" => LastKey \in QuitKeys \cup {"Enter"}
            /\ (hist # <<>> /\ ~failed) =>
                  IF LastKey = "Enter"
                  THEN pc = "done" /\ ret = Ok(items[((d - u) % n) + 1])
                  ELSE IF LastKey \in QuitKeys
                  THEN pc = "done" /\ Variant(ret) = "Err"
                  ELSE pc = "pick_key"

\* on a list of three items, up from the first row and then up again: Enter
\* returned the second
PickerWitness ==
    /\ Len(items) = 3
    /\ Len(hist) = 3
    /\ hist[1] \in UpKeys
    /\ hist[2] \in UpKeys
    /\ pc = "done"
    /\ ret = Ok(items[2])

----------------------------------------------------------------------------
(* DateTimeField and DateSelector.  `date` is the local date and time of   *)
(* day; the zone's offset is taken not to change over the dates looked at. *)

\* calls of left, right, up and down a DateSelector is followed over
MaxCalls == 4

\* "due date"
DEFAULT_DATE_NAME == <<100, 117, 101, 32, 100, 97, 116, 101>>

\* the step back without the wrap from Year to Second
switch_prev_no_wrap(field) ==
    CASE field = "Year" -> "Year"
      [] field = "Month" -> "Year"
      [] field = "Day" -> "Month"
      [] field = "Hour" -> "Day"
      [] field = "Minute" -> "Hour"
      [] field = "Second" -> "Minute"

switch_prev(field) ==
    CASE field = "Year" -> "Second"
      [] field = "Month" -> "Year"
      [] field = "Day" -> "Month"
      [] field = "Hour" -> "Day"
      [] field = "Minute" -> "Hour"
      [] field = "Second" -> "Minute"

switch_next(field) ==
    CASE field = "Year" -> "Month"
      [] field = "Month" -> "Day"
      [] field = "Day" -> "Hour"
      [] field = "Hour" -> "Minute"
      [] field = "Minute" -> "Second"
      [] field = "Second" -> "Year"

StartDate(f) ==
    [active_field |-> active_field, date |-> date, col |-> col,
     calls |-> <<>>, st |-> "ok", fail |-> f]

SetField(m, field) == IF m.st = "ok" THEN [m EXCEPT !.active_field = field] ELSE m

is_out_of_field(m) ==
    IF has_time THEN FALSE
    ELSE m.active_field \notin {"Year", "Month", "Day"}

\* the decimal digits of n, zero-padded to w places
Digits(n, w) == [i \in 1..w |-> 48 + ((n \div (10 ^ (w - i))) % 10)]

\* "%Y-%m-%d %H:%M:%S" with has_time, "%Y-%m-%d" without; %Y is four digits
\* for the years 0 to 9999 and a sign and all the digits for the others
to_string(m) ==
    LET d == m.date
        size == IF d.year < 0 THEN 0 - d.year ELSE d.year
        places == IF size < 10000 THEN 4 ELSE IF size < 100000 THEN 5 ELSE 6
        sign == IF d.year < 0 THEN <<45>>
                ELSE IF d.year > 9999 THEN <<43>> ELSE <<>>
        ymd == sign \o Digits(size, places) \o <<45>> \o Digits(d.month, 2)
               \o <<45>> \o Digits(d.day, 2)
    IN  IF has_time
        THEN ymd \o <<32>> \o Digits(d.hour, 2) \o <<58>> \o Digits(d.minute, 2)
                 \o <<58>> \o Digits(d.second, 2)
        ELSE ymd

adjust(m) ==
    LET msg_len == Len(to_string(m))
        m1 == move_cursor_left(m, msg_len)
    IN  move_cursor_right(m1,
            CASE m1.active_field = "Year" -> 3
              [] m1.active_field = "Month" -> 6
              [] m1.active_field = "Day" -> 9
              [] m1.active_field = "Hour" -> 12
              [] m1.active_field = "Minute" -> 15
              [] m1.active_field = "Second" -> 18)

\* left without the test of is_out_of_field
DateSelector_left_unmasked(m) ==
    adjust(SetField(m, switch_prev(m.active_field)))

DateSelector_left(m) ==
    LET m1 == SetField(m, switch_prev(m.active_field))
        m2 == IF is_out_of_field(m1) THEN SetField(m1, "Day") ELSE m1
    IN  adjust(m2)

\* right forcing an out-of-field cursor to Day, as left does
DateSelector_right_to_day(m) ==
    LET m1 == SetField(m, switch_next(m.active_field))
        m2 == IF is_out_of_field(m1) THEN SetField(m1, "Day") ELSE m1
    IN  adjust(m2)

DateSelector_right(m) ==
    LET m1 == SetField(m, switch_next(m.active_field))
        m2 == IF is_out_of_field(m1) THEN SetField(m1, "Year") ELSE m1
    IN  adjust(m2)

----------------------------------------------------------------------------
(* The calendar arithmetic of chrono that up and down call *)

\* the years of NaiveDate::MIN and NaiveDate::MAX
MIN_YEAR == -262143
MAX_YEAR == 262142

IsLeapYear(y) == (y % 4 = 0 /\ y % 100 # 0) \/ y % 400 = 0

DaysInMonth(y, mo) ==
    IF mo = 2 THEN (IF IsLeapYear(y) THEN 29 ELSE 28)
    ELSE IF mo \in {4, 6, 9, 11} THEN 30 ELSE 31

\* Option<DateTime<Local>>
Some(d) == <<d>>
None == <<>>

\* a range test that wraps the year around instead of giving None
InRange_wrapping(d) ==
    Some([d EXCEPT !.year = IF @ > MAX_YEAR THEN MIN_YEAR
                             ELSE IF @ < MIN_YEAR THEN MAX_YEAR ELSE @])

\* Some(d) when the date is one chrono has, None otherwise
InRange(d) == IF d.year \in MIN_YEAR..MAX_YEAR THEN Some(d) ELSE None

\* calendar months without the clamp: a day the month lacks runs over into
\* the month after
shift_months_rolling(d, k) ==
    LET total == d.year * 12 + (d.month - 1) + k
        y == total \div 12
        mo == (total % 12) + 1
        last_day == DaysInMonth(y, mo)
        over == (total + 1)
    IN  IF d.day > last_day
        THEN InRange([d EXCEPT !.year = over \div 12, !.month = (over % 12) + 1,
                               !.day = d.day - last_day])
        ELSE InRange([d EXCEPT !.year = y, !.month = mo])

\* the date k months on (back, for k < 0): the same day of that month, or its
\* last day when it has no such day
shift_months(d, k) ==
    LET total == d.year * 12 + (d.month - 1) + k
        y == total \div 12
        mo == (total % 12) + 1
        last_day == DaysInMonth(y, mo)
    IN  InRange([d EXCEPT !.year = y, !.month = mo,
                          !.day = IF d.day > last_day THEN last_day ELSE d.day])

\* the date k days on (back, for k < 0), for k of -1, 0 and 1
shift_days(d, k) ==
    IF k = 1
    THEN IF d.day < DaysInMonth(d.year, d.month)
         THEN Some([d EXCEPT !.day = @ + 1])
         ELSE IF d.month < 12
         THEN Some([d EXCEPT !.day = 1, !.month = @ + 1])
         ELSE InRange([d EXCEPT !.day = 1, !.month = 1, !.year = @ + 1])
    ELSE IF k = -1
    THEN IF d.day > 1
         THEN Some([d EXCEPT !.day = @ - 1])
         ELSE IF d.month > 1
         THEN Some([d EXCEPT !.day = DaysInMonth(d.year, d.month - 1),
                             !.month = @ - 1])
         ELSE InRange([d EXCEPT !.day = 31, !.month = 12, !.year = @ - 1])
    ELSE Some(d)

checked_add_months(d, months) == shift_months(d, months)
checked_sub_months(d, months) == shift_months(d, 0 - months)
checked_add_days(d, days) == shift_days(d, days)
checked_sub_days(d, days) == shift_days(d, 0 - days)

\* date + Duration, the duration in seconds and of less than a day either way
add_duration(d, seconds) ==
    LET total == d.hour * 3600 + d.minute * 60 + d.second + seconds
        of_day == total % 86400
        on == shift_days(d, total \div 86400)
    IN  IF on = None THEN None
        ELSE Some([on[1] EXCEPT !.hour = of_day \div 3600,
                                !.minute = (of_day % 3600) \div 60,
                                !.second = of_day % 60])

\* self.date = <Option>.unwrap(), and `date + duration`, which panics likewise
SetDate(m, option) ==
    IF m.st # "ok" THEN m
    ELSE IF option = None THEN Panic(m)
    ELSE [m EXCEPT !.date = option[1]]

\* up stepping the day at once when it finds the cursor on a hidden field
DateSelector_up_hidden_steps(m) ==
    CASE m.active_field = "Year" -> SetDate(m, checked_add_months(m.date, 12))
      [] m.active_field = "Month" -> SetDate(m, checked_add_months(m.date, 1))
      [] OTHER -> SetDate(SetField(m, "Day"), checked_add_days(m.date, 1))

DateSelector_up(m) ==
    CASE m.active_field = "Year" -> SetDate(m, checked_add_months(m.date, 12))
      [] m.active_field = "Month" -> SetDate(m, checked_add_months(m.date, 1))
      [] m.active_field = "Day" -> SetDate(m, checked_add_days(m.date, 1))
      [] OTHER ->
           IF has_time
           THEN CASE m.active_field = "Hour" ->
                         SetDate(m, add_duration(m.date, 3600))
                  [] m.active_field = "Minute" ->
                         SetDate(m, add_duration(m.date, 60))
                  [] m.active_field = "Second" ->
                         SetDate(m, add_duration(m.date, 1))
                  [] OTHER -> m
           ELSE SetField(m, "Day")

DateSelector_down(m) ==
    CASE m.active_field = "Year" -> SetDate(m, checked_sub_months(m.date, 12))
      [] m.active_field = "Month" -> SetDate(m, checked_sub_months(m.date, 1))
      [] m.active_field = "Day" -> SetDate(m, checked_sub_days(m.date, 1))
      [] OTHER ->
           IF has_time
           THEN CASE m.active_field = "Hour" ->
                         SetDate(m, add_duration(m.date, 0 - 3600))
                  [] m.active_field = "Minute" ->
                         SetDate(m, add_duration(m.date, 0 - 60))
                  [] m.active_field = "Second" ->
                         SetDate(m, add_duration(m.date, 0 - 1))
                  [] OTHER -> m
           ELSE SetField(m, "Day")

----------------------------------------------------------------------------
(* A DateSelector in the hands of a caller who calls left, right, up and   *)
(* down on it (as select does on the arrow keys).                          *)

\* the dates a selector is made with: a first of a month after a leap day,
\* a last second of a 31st, a leap day, the last second of a year
InitDates ==
    {DateTime(2024, 3, 1, 0, 0, 0), DateTime(2024, 1, 31, 23, 59, 59),
     DateTime(2024, 2, 29, 12, 0, 0), DateTime(2023, 12, 31, 23, 59, 59)}

\* the run m becomes the state; the call has returned to the caller, Ok(())
\* or a terminal call's Err, unless it panicked
FinishDate(m, op) ==
    /\ active_field' = m.active_field
    /\ date' = m.date
    /\ col' = m.col
    /\ calls' = m.calls
    /\ pc' = IF m.st = "panic" THEN "panic" ELSE "api"
    /\ ret' = IF m.st = "err" THEN TerminalError
              ELSE IF m.st = "ok" THEN Ok(<<>>) ELSE ret
    /\ failed' = (m.st = "err")
    /\ hist' = Append(hist, [op |-> op, field |-> active_field, date |-> date])
    /\ UNCHANGED <<question_msg, msg, items, seq, table, date_name, has_time>>
    /\ UNCHANGED bufvars

\* DateSelector::from(date) (or new()), has_time left false or set true
InitDate ==
    /\ NoBuffer
    /\ question_msg = <<>>
    /\ msg = <<>>
    /\ items = <<>>
    /\ seq = 0
    /\ table = <<>>
    /\ date_name = DEFAULT_DATE_NAME
    /\ has_time \in BOOLEAN
    /\ active_field = "Day"
    /\ date \in InitDates
    /\ hist = <<>>
    /\ failed = FALSE
    /\ col = 0
    /\ pc = "api"
    /\ ret = <<>>
    /\ calls = <<>>

DateLeft ==
    /\ pc = "api"
    /\ Len(hist) < MaxCalls
    /\ \E f \in FailPoints(DateSelector_left(StartDate(0))) :
           FinishDate(DateSelector_left(StartDate(f)), "left")

DateRight ==
    /\ pc = "api"
    /\ Len(hist) < MaxCalls
    /\ \E f \in FailPoints(DateSelector_right(StartDate(0))) :
           FinishDate(DateSelector_right(StartDate(f)), "right")

DateUp ==
    /\ pc = "api"
    /\ Len(hist) < MaxCalls
    /\ FinishDate(DateSelector_up(StartDate(0)), "up")

DateDown ==
    /\ pc = "api"
    /\ Len(hist) < MaxCalls
    /\ FinishDate(DateSelector_down(StartDate(0)), "down")

NextDate ==
    \/ DateLeft
    \/ DateRight
    \/ DateUp
    \/ DateDown

SpecDate == InitDate /\ [][NextDate]_vars

----------------------------------------------------------------------------
(* A DateSelector in the hands of a caller who also assigns its public     *)
(* has_time and calls select, whose loop reads the keys.                   *)

\* the date given to from() and the name then set: the last second of a 31st,
\* the first day of a month after a leap day (under a title of a two-byte
\* char), and the last and the first second chrono has
CallerDates ==
    {<<DateTime(2024, 1, 31, 23, 59, 59), DEFAULT_DATE_NAME>>,
     <<DateTime(2024, 3, 1, 0, 0, 0), ChEacute>>,
     <<DateTime(MAX_YEAR, 12, 31, 23, 59, 59), DEFAULT_DATE_NAME>>,
     <<DateTime(MIN_YEAR, 1, 1, 0, 0, 0), DEFAULT_DATE_NAME>>}

\* the top of select's loop: clear_screen, write "<name>: <date>", adjust
select_render(m) ==
    adjust(write(clear_screen(m), date_name \o ColonSpace \o to_string(m)))

\* the run m becomes the state; select blocks in read_key (next = "key") or
\* has returned, Ok(self) (next = "done") or a terminal call's Err
FinishSelect(m, op, next) ==
    /\ active_field' = m.active_field
    /\ date' = m.date
    /\ col' = m.col
    /\ calls' = m.calls
    /\ pc' = IF m.st = "ok" THEN next ELSE m.st
    /\ ret' = IF m.st = "err" THEN TerminalError
              ELSE IF m.st = "ok" /\ next = "done" THEN Ok(<<>>) ELSE ret
    /\ failed' = (m.st = "err")
    /\ hist' = Append(hist, [op |-> op, field |-> active_field, date |-> date])
    /\ UNCHANGED <<question_msg, msg, items, seq, table, date_name, has_time>>
    /\ UNCHANGED bufvars

\* DateSelector::from(date), has_time left false or set true, name left or set
InitCaller ==
    /\ NoBuffer
    /\ question_msg = <<>>
    /\ msg = <<>>
    /\ items = <<>>
    /\ seq = 0
    /\ table = <<>>
    /\ \E made \in CallerDates : date = made[1] /\ date_name = made[2]
    /\ has_time \in BOOLEAN
    /\ active_field = "Day"
    /\ hist = <<>>
    /\ failed = FALSE
    /\ col = 0
    /\ pc = "api"
    /\ ret = <<>>
    /\ calls = <<>>

\* the caller assigns the other value to the public field has_time
SetHasTime ==
    /\ pc = "api"
    /\ Len(hist) < MaxCalls
    /\ has_time' = ~has_time
    /\ hist' = Append(hist, [op |-> "has_time", field |-> active_field,
                             date |-> date])
    /\ UNCHANGED <<col, pc, ret, calls, question_msg, msg, items, seq, table,
                   date_name, active_field, date, failed>>
    /\ UNCHANGED bufvars

\* select is called: the first turn of the loop, up to read_key
Select ==
    /\ pc = "api"
    /\ Len(hist) < MaxCalls
    /\ \E f \in FailPoints(select_render(StartDate(0))) :
           FinishSelect(select_render(StartDate(f)), "select", "key")

\* read_key returns Err: select returns it
SelReadKeyFails ==
    /\ pc = "key"
    /\ FinishSelect([StartDate(0) EXCEPT !.st = "err"], "read_key", "key")

SelKeyLeft ==
    /\ pc = "key"
    /\ Len(hist) < MaxCalls
    /\ \E f \in FailPoints(select_render(adjust(DateSelector_left(StartDate(0))))) :
           FinishSelect(select_render(adjust(DateSelector_left(StartDate(f)))),
                        "ArrowLeft", "key")

SelKeyRight ==
    /\ pc = "key"
    /\ Len(hist) < MaxCalls
    /\ \E f \in FailPoints(select_render(adjust(DateSelector_right(StartDate(0))))) :
           FinishSelect(select_render(adjust(DateSelector_right(StartDate(f)))),
                        "ArrowRight", "key")

SelKeyUp ==
    /\ pc = "key"
    /\ Len(hist) < MaxCalls
    /\ \E f \in FailPoints(select_render(DateSelector_up(StartDate(0)))) :
           FinishSelect(select_render(DateSelector_up(StartDate(f))),
                        "ArrowUp", "key")

SelKeyDown ==
    /\ pc = "key"
    /\ Len(hist) < MaxCalls
    /\ \E f \in FailPoints(select_render(DateSelector_down(StartDate(0)))) :
           FinishSelect(select_render(DateSelector_down(StartDate(f))),
                        "ArrowDown", "key")

\* Key::Enter: break, clear_screen, Ok(self)
SelKeyEnter ==
    /\ pc = "key"
    /\ \E f \in FailPoints(clear_screen(StartDate(0))) :
           FinishSelect(clear_screen(StartDate(f)), "Enter", "done")

\* a key select has no arm for: the next turn of the loop
SelKeyOther ==
    /\ pc = "key"
    /\ Len(hist) < MaxCalls
    /\ \E f \in FailPoints(select_render(StartDate(0))) :
           FinishSelect(select_render(StartDate(f)), "Escape", "key")

NextCaller ==
    \/ SetHasTime
    \/ DateLeft
    \/ DateRight
    \/ DateUp
    \/ DateDown
    \/ Select
    \/ SelReadKeyFails
    \/ SelKeyLeft
    \/ SelKeyRight
    \/ SelKeyUp
    \/ SelKeyDown
    \/ SelKeyEnter
    \/ SelKeyOther

SpecCaller == InitCaller /\ [][NextCaller]_vars

----------------------------------------------------------------------------
(* Claims about the DateSelector *)

\* the fields a date-only selector shows
DateFields == {"Year", "Month", "Day"}

\* the i-th call from the end of those made so far (1: the last one)
Call(i) == hist[Len(hist) + 1 - i]

\* the last calls made were ops, in this order
LastCalls(ops) ==
    /\ Len(hist) >= Len(ops)
    /\ \A i \in 1..Len(ops) : Call(Len(ops) + 1 - i).op = ops[i]

(* C19: with has_time fixed before the first navigation (false from new()  *)
(* and from(), or set true once), after any calls of left, right, up and   *)
(* down active_field is no hidden field: in date-only mode it is one of    *)
(* Year, Month, Day; Hour, Minute and Second are reached only with         *)
(* has_time.                                                               *)
ActiveFieldVisible ==
    /\ ~has_time => active_field \in DateFields
    /\ active_field \in {"Hour", "Minute", "Second"} => has_time

\* in date-only mode left went from Year over the hidden Second to Day
ActiveFieldWitness ==
    /\ ~has_time
    /\ LastCalls(<<"left">>)
    /\ Call(1).field = "Year"
    /\ active_field = "Day"

\* the days from the first of January of year 1 to the date d
DayNumber(d) ==
    LET y == d.year - 1
        before == [mo \in 1..12 |->
                      IF mo = 1 THEN 0
                      ELSE IF mo = 2 THEN 31
                      ELSE 59 + (IF IsLeapYear(d.year) THEN 1 ELSE 0)
                           + ((mo - 3) * 306 + 5) \div 10]
    IN  365 * y + y \div 4 - y \div 100 + y \div 400 + before[d.month] + d.day - 1

(* C20: in date-only mode left() takes Day to Month, Month to Year and     *)
(* Year to Day, right() takes Day to Year, Year to Month and Month to Day; *)
(* so three left()s, or three right()s, from any visible field come back   *)
(* to it, right() after left() and left() after right() leave the field,   *)
(* and left() three times and then down() from Day takes exactly one day   *)
(* off the date.                                                           *)
DateOnlyRing ==
    ~has_time =>
        /\ LastCalls(<<"left">>) =>
              active_field = (CASE Call(1).field = "Day" -> "Month"
                                [] Call(1).field = "Month" -> "Year"
                                [] Call(1).field = "Year" -> "Day")
        /\ LastCalls(<<"right">>) =>
              active_field = (CASE Call(1).field = "Day" -> "Year"
                                [] Call(1).field = "Year" -> "Month"
                                [] Call(1).field = "Month" -> "Day")
        /\ (LastCalls(<<"left", "left", "left">>)
            \/ LastCalls(<<"right", "right", "right">>)) =>
              active_field = Call(3).field
        /\ (LastCalls(<<"left", "right">>) \/ LastCalls(<<"right", "left">>)) =>
              active_field = Call(2).field
        /\ (LastCalls(<<"left", "left", "left", "down">>)
            /\ Call(4).field = "Day") =>
              /\ pc # "panic"
              /\ active_field = "Day"
              /\ DayNumber(date) = DayNumber(Call(4).date) - 1
              /\ <<date.hour, date.minute, date.second>>
                 = <<Call(4).date.hour, Call(4).date.minute, Call(4).date.second>>

\* left three times and down from Day on the first of March of a leap year:
\* the date is the leap day
DateOnlyRingWitness ==
    /\ ~has_time
    /\ LastCalls(<<"left", "left", "left", "down">>)
    /\ Call(4).field = "Day"
    /\ Call(4).date = DateTime(2024, 3, 1, 0, 0, 0)
    /\ date = DateTime(2024, 2, 29, 0, 0, 0)
    /\ active_field = "Day"

\* from the date and time d to the date and time e it is n seconds, for n of
\* a day at most either way
Elapsed(d, e, n) ==
    LET days == DayNumber(e) - DayNumber(d)
    IN  /\ days \in -1..1
        /\ n = days * 86400 + (e.hour - d.hour) * 3600
               + (e.minute - d.minute) * 60 + (e.second - d.second)

\* the first day of the month k months from that of d
FirstOfMonth(d, k) ==
    LET total == d.year * 12 + (d.month - 1) + k
    IN  [d EXCEPT !.year = total \div 12, !.month = (total % 12) + 1, !.day = 1]

\* the calendar date k months from d: the same day of the month, or the
\* month's last day when the month is shorter; the time of day is kept
MonthsOn(d, k) ==
    LET first == FirstOfMonth(d, k)
        length == DayNumber(FirstOfMonth(d, k + 1)) - DayNumber(first)
    IN  [first EXCEPT !.day = IF d.day > length THEN length ELSE d.day]

\* n times one calendar month on from d, one month at a time
RECURSIVE MonthByMonth(_, _)
MonthByMonth(d, n) == IF n = 0 THEN d ELSE MonthsOn(MonthByMonth(d, n - 1), 1)

\* e is a date of the calendar and a time of the day
IsDate(e) ==
    /\ e.month \in 1..12
    /\ e.day >= 1
    /\ e.day <= DayNumber(FirstOfMonth(e, 1)) - DayNumber(FirstOfMonth(e, 0))
    /\ e.hour \in 0..23
    /\ e.minute \in 0..59
    /\ e.second \in 0..59

\* e is what the claim says up (sign 1) or down (sign -1) makes of the date d
\* with the cursor on field
SteppedTo(d, e, field, sign) ==
    CASE field = "Year" -> e = MonthsOn(d, sign * 12)
      [] field = "Month" -> e = MonthsOn(d, sign)
      [] field = "Day" -> IsDate(e) /\ Elapsed(d, e, sign * 86400)
      [] field = "Hour" -> IsDate(e) /\ Elapsed(d, e, sign * 3600)
      [] field = "Minute" -> IsDate(e) /\ Elapsed(d, e, sign * 60)
      [] field = "Second" -> IsDate(e) /\ Elapsed(d, e, sign)

\* the number of ups on Month that the calls so far end with
MonthUps ==
    Cardinality({n \in 1..Len(hist) :
                    \A i \in 1..n : Call(i).op = "up" /\ Call(i).field = "Month"})

UpDownNetZero ==
    (/\ LastCalls(<<"up", "down">>)
     /\ Call(2).field = Call(1).field
     /\ (has_time \/ Call(2).field \in DateFields)) =>
        /\ pc # "panic"
        /\ date = Call(2).date

\* the second keys esc() has an arm for, and the handler of each
EscArms ==
    {<<"Char", ChF, "word_forward">>, <<"Char", ChB, "word_backword">>,
     <<"Char", ChD, "word_delete">>, <<"Backspace", <<>>, "word_backspace">>}

(* C23: after an Escape key read_line always takes the next key as the     *)
(* second half of the pair: f, b, d and Backspace run word-forward,        *)
(* word-backward, word-delete-forward and word-delete-backward; any other  *)
(* second key leaves text and index as they are and does not end the loop, *)
(* be it Enter, ArrowUp or ArrowDown with terminate_on_up_down set, or a   *)
(* printable character, which is not inserted.                             *)
EscapeTakesNextKey ==
    [][/\ last'.key = "Escape" /\ pc = "loop" =>
              /\ pc' = "esc"
              /\ <<text', index', ret'>> = <<text, index, ret>>
       /\ pc = "esc" =>
              \/ last'.op = "read_key" /\ pc' = "err"
              \/ <<last'.key, last'.arg, last'.op>> \in EscArms
              \/ /\ last'.op = "esc_other"
                 /\ \A a \in EscArms : <<last'.key, last'.arg>> # <<a[1], a[2]>>
                 /\ <<text', index', ret'>> = <<text, index, ret>>
                 /\ calls' = <<>>
                 /\ pc' = "loop"
       /\ (\E a \in EscArms : last'.op = a[3]) => pc = "esc"]_vars

\* Escape and then ArrowUp came with terminate_on_up_down set and a text
\* typed: the loop is reading on after a printable char was ignored as well
EscapeTakesNextKeyWitness ==
    /\ last.op = "esc_other"
    /\ last.key = "ArrowUp"
    /\ terminate_on_up_down
    /\ text # <<>>
    /\ pc = "loop"

(* C24: the cursor index is a position between whole characters: for a     *)
(* char of any encoded width, after char(c) the index has advanced by one  *)
(* character (past all of c) and lies on a boundary between two whole      *)
(* characters of the text, so no later handler fails on it.                *)
IndexOnCharBoundary ==
    /\ pc # "panic"
    /\ IsCharBoundary(text, index)
    /\ Completed("char") =>
          /\ index = last.index + Len(last.arg)
          /\ CharCount(SubSeq(text, 1, index))
             = CharCount(SubSeq(last.text, 1, last.index)) + 1

\* the six fields in the order of the ring
FieldRing == <<"Year", "Month", "Day", "Hour", "Minute", "Second">>

\* the place of a field in the ring, 0 for Year
RingPlace(field) == (CHOOSE i \in 1..6 : FieldRing[i] = field) - 1

\* n times switch_next (forward TRUE) or switch_prev from field
RECURSIVE Switched(_, _, _)
Switched(field, forward, n) ==
    IF n = 0 THEN field
    ELSE LET f == Switched(field, forward, n - 1)
         IN  IF forward THEN switch_next(f) ELSE switch_prev(f)

\* the number of consecutive calls of op that the calls so far end with
Repeats(op) ==
    Cardinality({n \in 1..Len(hist) : \A i \in 1..n : Call(i).op = op})

(* C26: switch_prev and switch_next are permutations of the six fields,    *)
(* inverse to each other, and one cycle Year, Month, Day, Hour, Minute,    *)
(* Second, Year (Second before Year, Year after Second); six of either     *)
(* come back to the field they started from; with has_time, left() and     *)
(* right() follow the ring with no forcing, so from Day four right()s      *)
(* reach Year and three left()s reach Second.                              *)
FieldRingCycle ==
    /\ \A i \in 0..5 :
          LET f == FieldRing[i + 1]
          IN  /\ switch_next(f) = FieldRing[((i + 1) % 6) + 1]
              /\ switch_prev(f) = FieldRing[((i + 5) % 6) + 1]
              /\ switch_prev(switch_next(f)) = f
              /\ switch_next(switch_prev(f)) = f
              /\ Switched(f, TRUE, 6) = f
              /\ Switched(f, FALSE, 6) = f
              /\ \A n \in 1..5 : Switched(f, TRUE, n) # f /\ Switched(f, FALSE, n) # f
    /\ has_time =>
          /\ LastCalls(<<"left">>) =>
                RingPlace(active_field) = (RingPlace(Call(1).field) + 5) % 6
          /\ LastCalls(<<"right">>) =>
                RingPlace(active_field) = (RingPlace(Call(1).field) + 1) % 6
          /\ (Repeats("right") = 4 /\ Call(4).field = "Day") => active_field = "Year"
          /\ (Repeats("left") = 3 /\ Call(3).field = "Day") => active_field = "Second"

\* with has_time, left was called three times from Day and went over the
\* wrap from Year to Second
FieldRingWitness ==
    /\ has_time
    /\ Repeats("left") = 3
    /\ Call(3).field = "Day"
    /\ Call(1).field = "Year"
    /\ active_field = "Second"

\* the column of each field in the formatted date, as the claim gives them
FieldColumn ==
    [f \in {"Year", "Month", "Day", "Hour", "Minute", "Second"} |->
        CASE f = "Year" -> 3 [] f = "Month" -> 6 [] f = "Day" -> 9
          [] f = "Hour" -> 12 [] f = "Minute" -> 15 [] f = "Second" -> 18]

\* the cursor's column counted from the first character of the date, in a
\* line that begins with "<name>: "
DateColumn == col - (CharCount(date_name) + Len(ColonSpace))

(* C25: in DateSelector::select, every time the loop blocks for a key      *)
(* (after clear screen, the render of "<name>: <formatted date>" and       *)
(* adjust) the cursor is at the column of active_field counted from the    *)
(* first character of the formatted date - Year 3, Month 6, Day 9, Hour    *)
(* 12, Minute 15, Second 18 - and that column is inside the rendered       *)
(* string (less than 10 in date-only mode, less than 19 with has_time),    *)
(* after any sequence of arrow keys.                                       *)
CursorOnField ==
    pc = "key" =>
        /\ DateColumn = FieldColumn[active_field]
        /\ DateColumn < Len(to_string(StartDate(0)))
        /\ (date.year \in 0..9999) => DateColumn < (IF has_time THEN 19 ELSE 10)

\* the last call was up (sign 1) or down (sign -1), by the caller or by
\* select on the arrow key
LastStep(sign) ==
    /\ Len(hist) > 0
    /\ Call(1).op \in (IF sign = 1 THEN {"up", "ArrowUp"} ELSE {"down", "ArrowDown"})

(* C27: at the ends of the range of dates, up() and down() on any field    *)
(* never store a wrong date without notice: each call either stores the    *)
(* exact calendar result or fails detectably, and get_date() never gives   *)
(* a wrapped or otherwise wrong value, for Year, Month, Day and Hour,      *)
(* Minute, Second steps up and down alike.                                 *)
ExactOrDetected ==
    /\ IsDate(date)
    /\ date.year \in MIN_YEAR..MAX_YEAR
    /\ \A sign \in {1, -1} :
          (LastStep(sign) /\ (has_time \/ Call(1).field \in DateFields)) =>
              \/ pc = "panic" /\ date = Call(1).date
              \/ pc # "panic" /\ SteppedTo(Call(1).date, date, Call(1).field, sign)

\* the caller went to the seconds and stepped up from the last second that
\* there is: the call panicked and the date is what it was
ExactOrDetectedWitness ==
    /\ LastStep(1)
    /\ Call(1).field = "Second"
    /\ Call(1).date = DateTime(MAX_YEAR, 12, 31, 23, 59, 59)
    /\ pc = "panic"
    /\ date = Call(1).date

\* there is a day after (sign 1) or before (sign -1) the date d in chrono's range
HasNeighbourDay(d, sign) ==
    IF sign = 1 THEN <<d.year, d.month, d.day>> # <<MAX_YEAR, 12, 31>>
    ELSE <<d.year, d.month, d.day>> # <<MIN_YEAR, 1, 1>>

(* C28: if has_time is false while active_field is Hour, Minute or Second  *)
(* (reachable by clearing the public has_time after navigating with it     *)
(* set), up() and down() each set active_field to Day and leave the date   *)
(* as it is; the next up() or down() then changes the date by one day      *)
(* (where the range of dates has that day).                                *)
HiddenFieldForcedToDay ==
    ~has_time =>
        \A sign \in {1, -1} :
            /\ (LastStep(sign) /\ Call(1).field \notin DateFields) =>
                  /\ pc # "panic"
                  /\ active_field = "Day"
                  /\ date = Call(1).date
            /\ (/\ LastStep(sign)
                /\ Len(hist) > 1
                /\ Call(2).op \in {"up", "down", "ArrowUp", "ArrowDown"}
                /\ Call(2).field \notin DateFields
                /\ HasNeighbourDay(Call(1).date, sign)) =>
                  /\ pc # "panic"
                  /\ Call(1).field = "Day"
                  /\ Call(1).date = Call(2).date
                  /\ active_field = "Day"
                  /\ DayNumber(date) = DayNumber(Call(1).date) + sign
                  /\ <<date.hour, date.minute, date.second>>
                     = <<Call(1).date.hour, Call(1).date.minute,
                         Call(1).date.second>>

\* has_time was cleared with the cursor on Hour; up forced the cursor to
\* Day and down then took a day off the date
HiddenFieldWitness ==
    /\ ~has_time
    /\ Len(hist) > 2
    /\ Call(3).op = "has_time"
    /\ Call(2).op = "up"
    /\ Call(2).field = "Hour"
    /\ Call(1).op = "down"
    /\ Call(1).field = "Day"
    /\ Call(1).date = DateTime(2024, 3, 1, 0, 0, 0)
    /\ date = DateTime(2024, 2, 29, 0, 0, 0)

\* the rows of the marker table that are highlighted, counted from 0
Highlighted == {i \in 0..(Len(table) - 1) : table[i + 1] = Marker}

(* C29: for every length n >= 0 of the item list, the empty list and a     *)
(* single item included, select_word_from_words never underflows           *)
(* word_count - 1 and never indexes the items or the marker table out of   *)
(* range: at every render the marker table has exactly n rows, exactly one *)
(* of them highlighted, and that row is the selection index s, with        *)
(* 0 <= s < n.                                                             *)
PickerTableInRange ==
    /\ ~failed => pc # "panic"
    /\ pc = "pick_key" =>
          /\ Len(table) = Len(items)
          /\ Highlighted = {seq}
          /\ seq >= 0
          /\ seq < Len(items)

====
